---- MODULE Spec2Model ----
(***************************************************************************)
(* Balance aggregation and polling of the dashboard                        *)
(* (src/frontend/pages/index.tsx): ServicesProvider derives the            *)
(* service addresses from the service list, WalletProvider polls the       *)
(* balance of the wallet and service addresses on a 5 s interval.          *)
(*                                                                         *)
(* A React state update and the re-render that follows it (new closures,   *)
(* new interval delay) are one step: every action reads the state of the   *)
(* latest render.  A balance cycle is in flight from the tick that issues  *)
(* its calls until Promise.allSettled resolves; the continuation after the *)
(* await runs in the same step as that resolution.                         *)
(***************************************************************************)
EXTENDS Integers, Sequences, FiniteSets, TLC

VARIABLES
    services,       \* useState<Service[]>            (ServicesProvider)
    wallets,        \* useState<Wallet[]>             (WalletProvider)
    balance,        \* useState<number>(), undefined at first
    cycles,         \* updateBalance calls awaiting Promise.allSettled, in start order
    nStarted,       \* number of updateBalance calls started by the interval
    rpcCalls,       \* number of EthersService.getEthBalance calls issued
    notifications,  \* number of message.error calls
    last,           \* the last completed updateBalance call: its addresses and settled results
    cycleIds,       \* for each cycle in flight, its number in start order
    lastId,         \* the start number of the last completed cycle, 0 before the first
    lastRepeats,    \* the last completed cycle had the addresses and results of the one before
    hasInitialLoaded,   \* useState(false)                (ServicesProvider)
    serviceStatus,      \* useState<DeploymentStatus | undefined>()
    initialLoad,        \* the getServices call of the mount effect: pending, done or failed
    listFetches,        \* number of getServices calls of the list interval in flight
    nListTicks,         \* number of ticks of the list interval
    statusRequests,     \* hashes of the getDeployment calls in flight
    nStatusTicks,       \* number of ticks of the status interval
    typeErrors,         \* number of status ticks that read services[0] of an empty list
    failedCalls,        \* number of failed backend calls of the polling loops
    unhandled,          \* number of promise rejections nothing handles
    lastFetch,          \* the last settled fetch of the list interval: its result and data
    multicall           \* the Multicall Client call: its arguments, state and returned record

walletState == <<wallets, balance, cycles, nStarted, rpcCalls, last, cycleIds, lastId, lastRepeats>>

serviceState ==
    <<hasInitialLoaded, serviceStatus, initialLoad, listFetches, nListTicks,
      statusRequests, nStatusTicks, typeErrors, failedCalls, unhandled, lastFetch>>

vars == <<services, notifications, walletState, serviceState, multicall>>

----------------------------------------------------------------------------
(* Bounds *)

MaxCycles == 2          \* updateBalance calls started in one behaviour
MaxAmount == 1          \* largest balance one call returns
MaxServices == 2        \* service records in one list (collector inputs)
MaxInstances == 2       \* instance addresses of one service (collector inputs)
MaxListTicks == 2       \* ticks of the service-list interval in one behaviour
MaxStatusTicks == 2     \* ticks of the deployment-status interval in one behaviour
MaxAddresses == 2       \* addresses handed to one Multicall Client call

----------------------------------------------------------------------------
(* JavaScript values: a string is the sequence of its characters *)

Undefined == [t |-> "undefined", s |-> <<>>]

Str(chars) == [t |-> "string", s |-> chars]

Arr(elems) == [t |-> "array", s |-> elems]

Num(n) == [t |-> "number", n |-> n]

NoNumber == [t |-> "undefined", n |-> 0]

\* `${v}`
TemplateString(v) ==
    IF v.t = "undefined"
    THEN <<"u", "n", "d", "e", "f", "i", "n", "e", "d">>
    ELSE v.s

\* !v is false
Truthy(v) == v.t # "undefined" /\ (v.t = "string" => v.s # <<>>)

Digits == {"0", "1", "2", "3", "4", "5", "6", "7", "8", "9"}

LowerHex == {"a", "b", "c", "d", "e", "f"}

UpperHex == {"A", "B", "C", "D", "E", "F"}

IsHex40(q) ==
    /\ Len(q) = 40
    /\ \A i \in 1..Len(q) : q[i] \in Digits \cup LowerHex \cup UpperHex

MixedCase(q) ==
    /\ \E i \in 1..Len(q) : q[i] \in LowerHex
    /\ \E i \in 1..Len(q) : q[i] \in UpperHex

\* ethers isAddress: getAddress accepts 40 hex digits with or without the
\* 0x prefix; a mixed-case string must also carry the right checksum, which
\* no value of this model does.
isAddress(str) ==
    LET body == IF Len(str) >= 2 /\ str[1] = "0" /\ str[2] = "x"
                THEN SubSeq(str, 3, Len(str))
                ELSE str
    IN  IsHex40(body) /\ ~MixedCase(body)

Addr(d) == Str(<<"0", "x">> \o [i \in 1..40 |-> d])

A1 == Addr("1")
A2 == Addr("2")
A3 == Addr("3")
Malformed == Str(<<"0", "x", "1", "2">>)

Service(hash, instances, multisig) ==
    [hash |-> hash, chain_data |-> [instances |-> instances, multisig |-> multisig]]

Wallet(address) == [address |-> address]

\* the sequences over S of length at most n
SeqsUpTo(S, n) == UNION {[1..k -> S] : k \in 0..n}

----------------------------------------------------------------------------
(* ServicesProvider: the service-derived addresses *)

\* the inner reduce without the isAddress test
InstanceAddressesUnfiltered(instances) == instances

\* inner reduce: keep the instances that pass isAddress
RECURSIVE InstanceAddresses(_)
InstanceAddresses(instances) ==
    IF instances = <<>> THEN <<>>
    ELSE LET rest == InstanceAddresses(Tail(instances))
         IN  IF isAddress(TemplateString(Head(instances)))
             THEN <<Head(instances)>> \o rest
             ELSE rest

\* instances ?? []
InstancesOrEmpty(instances) ==
    IF instances.t = "undefined" THEN <<>> ELSE instances.s

\* what one service pushes on the accumulator
ServiceContribution(service) ==
    InstanceAddresses(InstancesOrEmpty(service.chain_data.instances))
        \o (IF isAddress(TemplateString(service.chain_data.multisig))
            THEN <<service.chain_data.multisig>>
            ELSE <<>>)

\* outer reduce over the services
RECURSIVE ServiceAddresses(_)
ServiceAddresses(svcs) ==
    IF svcs = <<>> THEN <<>>
    ELSE ServiceContribution(Head(svcs)) \o ServiceAddresses(Tail(svcs))

serviceAddresses == ServiceAddresses(services)

----------------------------------------------------------------------------
(* WalletProvider.updateBalance *)

\* the first loop without the !wallet.address test
WalletAddressesNoSkip(ws) == [i \in 1..Len(ws) |-> ws[i].address]

\* first loop: the wallet addresses that are present
RECURSIVE WalletAddresses(_)
WalletAddresses(ws) ==
    IF ws = <<>> THEN <<>>
    ELSE IF ~Truthy(Head(ws).address)
         THEN WalletAddresses(Tail(ws))
         ELSE <<Head(ws).address>> \o WalletAddresses(Tail(ws))

\* second loop: the service addresses that are present
RECURSIVE PresentAddresses(_)
PresentAddresses(addrs) ==
    IF addrs = <<>> THEN <<>>
    ELSE IF ~Truthy(Head(addrs))
         THEN PresentAddresses(Tail(addrs))
         ELSE <<Head(addrs)>> \o PresentAddresses(Tail(addrs))

WalletsToCheck(ws, svcAddrs) == WalletAddresses(ws) \o PresentAddresses(svcAddrs)

Fulfilled(v) == [status |-> "fulfilled", value |-> v]

Rejected == [status |-> "rejected", value |-> 0]

\* a call is rejected, or fulfilled with an empty or the largest balance
Outcomes == {Rejected} \cup {Fulfilled(v) : v \in {0, MaxAmount}}

\* a reduce that gives up on the first rejected call
RECURSIVE SettledReduceAllOrNothing(_, _)
SettledReduceAllOrNothing(settled, acc) ==
    IF settled = <<>> THEN acc
    ELSE IF Head(settled).status = "fulfilled"
         THEN SettledReduceAllOrNothing(Tail(settled), acc + Head(settled).value)
         ELSE 0

\* settledBalances.reduce(..., 0)
RECURSIVE SettledReduce(_, _)
SettledReduce(settled, acc) ==
    IF settled = <<>> THEN acc
    ELSE SettledReduce(Tail(settled),
                       IF Head(settled).status = "fulfilled"
                       THEN acc + Head(settled).value
                       ELSE acc)

Completed(addrs, results) == [set |-> TRUE, addrs |-> addrs, results |-> results]

NoCycle == [set |-> FALSE, addrs |-> <<>>, results |-> <<>>]

NoFetch == [result |-> "none", data |-> <<>>]

EmptyRecord == [a \in {} |-> Num(0)]

NoCall ==
    [state |-> "idle", fn |-> "none", addresses |-> <<>>, contractAddress |-> Undefined,
     responseData |-> <<>>, record |-> EmptyRecord]

RemoveAt(q, i) == SubSeq(q, 1, i - 1) \o SubSeq(q, i + 1, Len(q))

\* a balance interval that runs while any address is monitored
BalanceTimerOnAnyAddress == Len(wallets) # 0 \/ Len(serviceAddresses) # 0

\* useInterval(..., wallets.length ? 5000 : null)
BalanceTimerEnabled == Len(wallets) # 0

----------------------------------------------------------------------------
(* Inputs *)

WalletAddressValues == {Undefined, A3, Malformed}

\* the wallet list is empty or holds the one wallet of the user
WalletResponses == {<<>>} \cup {<<Wallet(a)>> : a \in WalletAddressValues}

\* service lists the backend answers with while the balance is polled: no
\* service, or one service whose multisig is the address of the wallet
ServiceResponses ==
    { <<>>,
      <<Service("0xA", Arr(<<A1, Malformed>>), A3)>> }

\* every service list within the bounds, for the address collector
InstanceValues == {A1, Malformed}

MultisigValues == {Undefined, A2, Malformed}

CollectorInputs ==
    SeqsUpTo({Service("0xA", i, m) :
                 i \in {Undefined} \cup {Arr(q) : q \in SeqsUpTo(InstanceValues, MaxInstances)},
                 m \in MultisigValues},
             MaxServices)

----------------------------------------------------------------------------
(* Actions *)

Init ==
    /\ services = <<>>
    /\ wallets = <<>>
    /\ balance = NoNumber
    /\ cycles = <<>>
    /\ nStarted = 0
    /\ rpcCalls = 0
    /\ notifications = 0
    /\ last = NoCycle
    /\ cycleIds = <<>>
    /\ lastId = 0
    /\ lastRepeats = FALSE
    /\ hasInitialLoaded = FALSE
    /\ serviceStatus = "undefined"
    /\ initialLoad = "pending"
    /\ listFetches = 0
    /\ nListTicks = 0
    /\ statusRequests = <<>>
    /\ nStatusTicks = 0
    /\ typeErrors = 0
    /\ failedCalls = 0
    /\ unhandled = 0
    /\ lastFetch = NoFetch
    /\ multicall = NoCall

\* setServices(data)
SetServices(data) ==
    /\ services' = data
    /\ UNCHANGED <<notifications, walletState, serviceState, multicall>>

\* updateWallets: WalletService.getWallets().then(setWallets)
UpdateWallets(data) ==
    /\ wallets' = data
    /\ UNCHANGED <<services, balance, cycles, nStarted, rpcCalls, notifications, last>>
    /\ UNCHANGED <<cycleIds, lastId, lastRepeats>>
    /\ UNCHANGED <<serviceState, multicall>>

\* An interval tick calls updateBalance, which runs up to the await.  The
\* interval is a setInterval on the latest callback: the promise updateBalance
\* returns is dropped, so a tick does not wait for earlier cycles.  With no
\* address to check Promise.allSettled([]) is already resolved and the
\* continuation publishes at once.
BalanceTick ==
    /\ BalanceTimerEnabled
    /\ nStarted < MaxCycles
    /\ LET walletsToCheck == WalletsToCheck(wallets, serviceAddresses)
       IN  /\ nStarted' = nStarted + 1
           /\ rpcCalls' = rpcCalls + Len(walletsToCheck)
           /\ IF walletsToCheck = <<>>
              THEN /\ balance' = Num(SettledReduce(<<>>, 0))
                   /\ last' = Completed(<<>>, <<>>)
                   /\ cycles' = cycles
                   /\ lastId' = nStarted + 1
                   /\ lastRepeats' = (last = Completed(<<>>, <<>>))
                   /\ UNCHANGED cycleIds
              ELSE /\ cycles' = Append(cycles, walletsToCheck)
                   /\ cycleIds' = Append(cycleIds, nStarted + 1)
                   /\ UNCHANGED <<balance, last, lastId, lastRepeats>>
    /\ UNCHANGED <<services, wallets, notifications, serviceState, multicall>>

\* a continuation that adds the results to the balance already published
BalanceSettleAccumulating(i, settledBalances) ==
    /\ i \in 1..Len(cycles)
    /\ Len(settledBalances) = Len(cycles[i])
    /\ balance' = Num(SettledReduce(settledBalances, balance.n))
    /\ last' = Completed(cycles[i], settledBalances)
    /\ cycles' = RemoveAt(cycles, i)
    /\ cycleIds' = RemoveAt(cycleIds, i)
    /\ lastId' = cycleIds[i]
    /\ lastRepeats' = (last = Completed(cycles[i], settledBalances))
    /\ UNCHANGED <<services, wallets, nStarted, rpcCalls, notifications, serviceState, multicall>>

\* Every call of the i-th cycle in flight has settled: the await returns,
\* the results are reduced and setBalance publishes the sum.
BalanceSettle(i, settledBalances) ==
    /\ i \in 1..Len(cycles)
    /\ Len(settledBalances) = Len(cycles[i])
    /\ balance' = Num(SettledReduce(settledBalances, 0))
    /\ last' = Completed(cycles[i], settledBalances)
    /\ cycles' = RemoveAt(cycles, i)
    /\ cycleIds' = RemoveAt(cycleIds, i)
    /\ lastId' = cycleIds[i]
    /\ lastRepeats' = (last = Completed(cycles[i], settledBalances))
    /\ UNCHANGED <<services, wallets, nStarted, rpcCalls, notifications, serviceState, multicall>>

Next ==
    \/ \E data \in ServiceResponses : SetServices(data)
    \/ \E data \in WalletResponses : UpdateWallets(data)
    \/ BalanceTick
    \/ \E i \in 1..Len(cycles) :
         \E settledBalances \in [1..Len(cycles[i]) -> Outcomes] :
            BalanceSettle(i, settledBalances)

Spec == Init /\ [][Next]_vars

\* the address collector applied to every service list within the bounds
NextCollector ==
    /\ services = <<>>
    /\ \E data \in CollectorInputs : SetServices(data)

SpecCollector == Init /\ [][NextCollector]_vars

----------------------------------------------------------------------------
(* ServicesProvider: initial load, list interval, status interval *)

\* service lists the backend answers with while the services are polled
BackendServiceLists ==
    { <<>>,
      <<Service("0xA", Arr(<<A1>>), A2)>>,
      <<Service("0xB", Undefined, Undefined), Service("0xA", Arr(<<A1>>), A2)>> }

DeploymentStatuses == {"DEPLOYED", "STOPPED"}

\* a status interval gated on the initial load instead of the list
StatusTimerGatedOnLoad == hasInitialLoaded

\* useInterval(..., services.length ? 5000 : null)
StatusTimerEnabled == Len(services) # 0

\* useInterval(..., hasInitialLoaded ? 5000 : null)
ListTimerEnabled == hasInitialLoaded

\* mount effect: updateServicesState().then(() => setHasInitialLoaded(true)),
\* the call fulfils: setServices(data), then setHasInitialLoaded(true)
InitialLoadSucceeds(data) ==
    /\ initialLoad = "pending"
    /\ initialLoad' = "done"
    /\ services' = data
    /\ hasInitialLoaded' = TRUE
    /\ UNCHANGED <<serviceStatus, listFetches, nListTicks, statusRequests, nStatusTicks,
                   typeErrors, failedCalls, unhandled, lastFetch>>
    /\ UNCHANGED <<notifications, walletState, multicall>>

\* a mount effect that marks the load as done whatever the outcome
InitialLoadFailsMarksLoaded ==
    /\ initialLoad = "pending"
    /\ initialLoad' = "failed"
    /\ failedCalls' = failedCalls + 1
    /\ unhandled' = unhandled + 1
    /\ hasInitialLoaded' = TRUE
    /\ UNCHANGED <<serviceStatus, listFetches, nListTicks, statusRequests,
                   nStatusTicks, typeErrors, lastFetch>>
    /\ UNCHANGED <<services, notifications, walletState, multicall>>

\* mount effect, the call rejects: the chain has no catch
InitialLoadFails ==
    /\ initialLoad = "pending"
    /\ initialLoad' = "failed"
    /\ failedCalls' = failedCalls + 1
    /\ unhandled' = unhandled + 1
    /\ UNCHANGED <<hasInitialLoaded, serviceStatus, listFetches, nListTicks, statusRequests,
                   nStatusTicks, typeErrors, lastFetch>>
    /\ UNCHANGED <<services, notifications, walletState, multicall>>

\* a tick of the list interval calls updateServicesState
ListTick ==
    /\ ListTimerEnabled
    /\ nListTicks < MaxListTicks
    /\ nListTicks' = nListTicks + 1
    /\ listFetches' = listFetches + 1
    /\ UNCHANGED <<hasInitialLoaded, serviceStatus, initialLoad, statusRequests, nStatusTicks,
                   typeErrors, failedCalls, unhandled, lastFetch>>
    /\ UNCHANGED <<services, notifications, walletState, multicall>>

\* a getServices call of the list interval fulfils: setServices(data)
ListFetchSucceeds(data) ==
    /\ listFetches > 0
    /\ listFetches' = listFetches - 1
    /\ services' = data
    /\ lastFetch' = [result |-> "ok", data |-> data]
    /\ UNCHANGED <<hasInitialLoaded, serviceStatus, initialLoad, nListTicks, statusRequests,
                   nStatusTicks, typeErrors, failedCalls, unhandled>>
    /\ UNCHANGED <<notifications, walletState, multicall>>

\* a catch handler that also empties the list
ListFetchFailsClearsServices ==
    /\ listFetches > 0
    /\ listFetches' = listFetches - 1
    /\ failedCalls' = failedCalls + 1
    /\ notifications' = notifications + 1
    /\ lastFetch' = [result |-> "failed", data |-> <<>>]
    /\ services' = <<>>
    /\ UNCHANGED <<hasInitialLoaded, serviceStatus, initialLoad, nListTicks, statusRequests,
                   nStatusTicks, typeErrors, unhandled>>
    /\ UNCHANGED <<walletState, multicall>>

\* a getServices call of the list interval rejects: .catch((e) => message.error(e.message))
ListFetchFails ==
    /\ listFetches > 0
    /\ listFetches' = listFetches - 1
    /\ failedCalls' = failedCalls + 1
    /\ notifications' = notifications + 1
    /\ lastFetch' = [result |-> "failed", data |-> <<>>]
    /\ UNCHANGED <<hasInitialLoaded, serviceStatus, initialLoad, nListTicks, statusRequests,
                   nStatusTicks, typeErrors, unhandled>>
    /\ UNCHANGED <<services, walletState, multicall>>

\* a tick of the status interval: services[0].hash is read and getDeployment
\* called; on an empty list the read throws inside the async callback
StatusTick ==
    /\ StatusTimerEnabled
    /\ nStatusTicks < MaxStatusTicks
    /\ nStatusTicks' = nStatusTicks + 1
    /\ IF services = <<>>
       THEN /\ typeErrors' = typeErrors + 1
            /\ unhandled' = unhandled + 1
            /\ UNCHANGED statusRequests
       ELSE /\ statusRequests' = Append(statusRequests, services[1].hash)
            /\ UNCHANGED <<typeErrors, unhandled>>
    /\ UNCHANGED <<hasInitialLoaded, serviceStatus, initialLoad, listFetches, nListTicks,
                   failedCalls, lastFetch>>
    /\ UNCHANGED <<services, notifications, walletState, multicall>>

\* the i-th getDeployment call in flight fulfils: setServiceStatus(serviceStatus.status)
StatusSucceeds(i, status) ==
    /\ i \in 1..Len(statusRequests)
    /\ statusRequests' = RemoveAt(statusRequests, i)
    /\ serviceStatus' = status
    /\ UNCHANGED <<hasInitialLoaded, initialLoad, listFetches, nListTicks, nStatusTicks,
                   typeErrors, failedCalls, unhandled, lastFetch>>
    /\ UNCHANGED <<services, notifications, walletState, multicall>>

\* the i-th getDeployment call in flight rejects: the async callback has no catch
StatusFails(i) ==
    /\ i \in 1..Len(statusRequests)
    /\ statusRequests' = RemoveAt(statusRequests, i)
    /\ failedCalls' = failedCalls + 1
    /\ unhandled' = unhandled + 1
    /\ UNCHANGED <<hasInitialLoaded, serviceStatus, initialLoad, listFetches, nListTicks,
                   nStatusTicks, typeErrors, lastFetch>>
    /\ UNCHANGED <<services, notifications, walletState, multicall>>

\* setServices is handed to the consumers through the context
NextServices ==
    \/ \E data \in BackendServiceLists : InitialLoadSucceeds(data)
    \/ InitialLoadFails
    \/ ListTick
    \/ \E data \in BackendServiceLists : ListFetchSucceeds(data)
    \/ ListFetchFails
    \/ StatusTick
    \/ \E i \in 1..Len(statusRequests) : \E status \in DeploymentStatuses : StatusSucceeds(i, status)
    \/ \E i \in 1..Len(statusRequests) : StatusFails(i)
    \/ \E data \in BackendServiceLists : SetServices(data)

SpecServices == Init /\ [][NextServices]_vars

----------------------------------------------------------------------------
(* Multicall Client (src/frontend/service/Multicall.ts) *)

\* parseFloat(ethers.utils.formatEther(balance)) and
\* parseFloat(ethers.utils.formatUnits(balance, 18)): the number of ether,
\* held here in units of 1e-18; exact for the amounts of this model, which
\* are far below 2^53 wei
EtherNumber(bigNumber) == Num(bigNumber)

\* a reduce that leaves out the zero balances
RECURSIVE BalanceRecordWithoutZero(_, _, _, _)
BalanceRecordWithoutZero(responseData, addresses, index, acc) ==
    IF index > Len(responseData) THEN acc
    ELSE BalanceRecordWithoutZero(responseData, addresses, index + 1,
             IF responseData[index] = 0
             THEN acc
             ELSE (addresses[index] :> EtherNumber(responseData[index])) @@ acc)

\* responseData.reduce((acc, balance, index) =>
\*     ({...acc, [addresses[index]]: parseFloat(...)}), {})
RECURSIVE BalanceRecord(_, _, _, _)
BalanceRecord(responseData, addresses, index, acc) ==
    IF index > Len(responseData) THEN acc
    ELSE BalanceRecord(responseData, addresses, index + 1,
             (addresses[index] :> EtherNumber(responseData[index])) @@ acc)

MulticallAddressValues == {A1, A2, Malformed}

MulticallInputs == SeqsUpTo(MulticallAddressValues, MaxAddresses)

\* the aggregator answers every call of one batch from one block
ChainStates == [MulticallAddressValues -> 0..MaxAmount]

\* getEthBalances(addresses, rpc): one getEthBalance call per address, then
\* multicallProvider.all(callData)
GetEthBalances(addresses) ==
    /\ multicall.state # "pending"
    /\ multicall' = [NoCall EXCEPT !.state = "pending", !.fn = "getEthBalances",
                                   !.addresses = addresses]
    /\ UNCHANGED <<services, notifications, walletState, serviceState>>

\* getErc20Balances(addresses, rpc, contractAddress): one balanceOf call per address
GetErc20Balances(addresses, contractAddress) ==
    /\ multicall.state # "pending"
    /\ multicall' = [NoCall EXCEPT !.state = "pending", !.fn = "getErc20Balances",
                                   !.addresses = addresses,
                                   !.contractAddress = contractAddress]
    /\ UNCHANGED <<services, notifications, walletState, serviceState>>

\* multicallProvider.all fulfils with one BigNumber per call: the then builds
\* the record and the promise of the client fulfils with it
MulticallFulfils(chain) ==
    /\ multicall.state = "pending"
    /\ LET responseData == [i \in 1..Len(multicall.addresses) |-> chain[multicall.addresses[i]]]
       IN  multicall' = [multicall EXCEPT
                            !.state = "fulfilled",
                            !.responseData = responseData,
                            !.record = BalanceRecord(responseData, multicall.addresses, 1, EmptyRecord)]
    /\ UNCHANGED <<services, notifications, walletState, serviceState>>

\* multicallProvider.all rejects: the then is skipped and the promise of the
\* client rejects
MulticallRejects ==
    /\ multicall.state = "pending"
    /\ multicall' = [multicall EXCEPT !.state = "rejected"]
    /\ UNCHANGED <<services, notifications, walletState, serviceState>>

NextMulticall ==
    \/ \E addresses \in MulticallInputs : GetEthBalances(addresses)
    \/ \E addresses \in MulticallInputs : GetErc20Balances(addresses, A3)
    \/ \E chain \in ChainStates : MulticallFulfils(chain)
    \/ MulticallRejects

SpecMulticall == Init /\ [][NextMulticall]_vars

----------------------------------------------------------------------------
(* Properties *)

Range(q) == {q[i] : i \in 1..Len(q)}

IsDuplicateFree(q) == \A i, j \in 1..Len(q) : q[i] = q[j] => i = j

RECURSIVE SumOver(_, _)
SumOver(S, f) ==
    IF S = {} THEN 0
    ELSE LET x == CHOOSE y \in S : TRUE
         IN  f[x] + SumOver(S \ {x}, f)

\* wallet addresses that are present, together with the service-derived ones
MonitoredSet ==
    {wallets[i].address : i \in {k \in 1..Len(wallets) : Truthy(wallets[k].address)}}
        \cup Range(serviceAddresses)

SomeRejected(results) == \E i \in 1..Len(results) : results[i].status = "rejected"

SomeFulfilled(results) == \E i \in 1..Len(results) : results[i].status = "fulfilled"

FulfilledIndexes(results) == {i \in 1..Len(results) : results[i].status = "fulfilled"}

SumOfFulfilled(results) ==
    SumOver(FulfilledIndexes(results), [i \in 1..Len(results) |-> results[i].value])

\* a balance cycle completes in this step
CycleCompletes == nStarted' - Len(cycles') > nStarted - Len(cycles)

\* the calls of one cycle for the same address returned the same balance
SameAddressSameBalance(addrs, results) ==
    \A i, j \in 1..Len(addrs) : addrs[i] = addrs[j] => results[i] = results[j]

\* the sum of the returned balances, each distinct address taken once
SumOverUnion(addrs, results) ==
    SumOver(Range(addrs),
            [a \in Range(addrs) |-> results[CHOOSE i \in 1..Len(addrs) : addrs[i] = a].value])

\* C1: at most one balance refresh cycle is in flight at any time: no tick
\* starts updateBalance while the calls of an earlier cycle are unsettled.
C1_AtMostOneCycleInFlight == Len(cycles) <= 1

\* C2: a cycle whose balance calls all fail leaves the previously published
\* balance unchanged.
C2_FailedCycleRetainsBalance ==
    [][(/\ CycleCompletes
        /\ balance.t = "number"
        /\ last'.results # <<>>
        /\ ~SomeFulfilled(last'.results)) => balance' = balance]_vars

\* C3: when some calls of a cycle fail and the others succeed, the cycle
\* completes and publishes the sum of the successful results only.
C3_PartialFailureSumsSuccesses ==
    (last.set /\ SomeRejected(last.results) /\ SomeFulfilled(last.results))
        => balance = Num(SumOfFulfilled(last.results))

C3_Witness ==
    /\ last.set
    /\ Len(last.results) = 3
    /\ SomeRejected(last.results)
    /\ \E i, j \in 1..Len(last.results) :
          /\ i # j
          /\ last.results[i] = Fulfilled(1)
          /\ last.results[j] = Fulfilled(1)
    /\ balance = Num(2)

\* C4: a cycle in which a balance call failed has recorded a notification on
\* the error channel.
C4_FailureIsNotified ==
    (last.set /\ SomeRejected(last.results)) => notifications > 0

\* C5: while the monitored address set is empty the balance timer is
\* disabled, no cycle is started and the published balance does not change.
C5_EmptySetDisablesTimer ==
    [][MonitoredSet = {} =>
          (/\ ~BalanceTimerEnabled
           /\ nStarted' = nStarted
           /\ balance' = balance)]_vars

\* C6: in a state where the monitored address set is empty no step issues an
\* RPC balance call.
C6_EmptySetIssuesNoCall ==
    [][rpcCalls' # rpcCalls => MonitoredSet # {}]_vars

C6_Witness ==
    /\ MonitoredSet = {}
    /\ BalanceTimerEnabled
    /\ nStarted > 0
    /\ rpcCalls = 0
    /\ last.set
    /\ last.addrs = <<>>

\* C7: each distinct address is monitored at most once: the service-derived
\* collection has no duplicates and no cycle queries an address twice.
C7_EachAddressOnce ==
    /\ IsDuplicateFree(serviceAddresses)
    /\ \A i \in 1..Len(cycles) : IsDuplicateFree(cycles[i])

\* C8: the service-derived collection holds exactly the instance and multisig
\* values of the services that pass isAddress; missing instance lists and
\* multisig values contribute nothing, and services without instances and
\* multisig give the empty collection.
C8_CollectorKeepsExactlyValid ==
    LET candidates ==
            UNION {Range(InstancesOrEmpty(services[i].chain_data.instances))
                       \cup {services[i].chain_data.multisig} : i \in 1..Len(services)}
        valid == {v \in candidates : isAddress(TemplateString(v))}
    IN  /\ Range(serviceAddresses) = valid
        /\ Undefined \notin Range(serviceAddresses)
        /\ Malformed \notin Range(serviceAddresses)
        /\ (\A i \in 1..Len(services) :
               /\ InstancesOrEmpty(services[i].chain_data.instances) = <<>>
               /\ services[i].chain_data.multisig = Undefined)
              => serviceAddresses = <<>>

C8_Witness ==
    /\ Len(services) = 2
    /\ services[1].chain_data.instances = Undefined
    /\ services[1].chain_data.multisig = A2
    /\ services[2].chain_data.instances = Arr(<<Malformed, A1>>)
    /\ services[2].chain_data.multisig = Malformed
    /\ serviceAddresses = <<A2, A1>>

\* C9: every address for which a balance call is issued passes isAddress.
C9_QueriedAddressesAreValid ==
    \A i \in 1..Len(cycles) :
        \A k \in 1..Len(cycles[i]) : isAddress(TemplateString(cycles[i][k]))

\* C10: when all calls of a cycle succeed, the published balance is the sum
\* of the returned balances over the union of the wallet and service
\* addresses the cycle started with.
C10_AllSucceedSumsUnion ==
    (/\ last.set
     /\ ~SomeRejected(last.results)
     /\ SameAddressSameBalance(last.addrs, last.results))
        => balance = Num(SumOverUnion(last.addrs, last.results))

\* C11: the deployment-status poll is enabled only when hasInitialLoaded is
\* true and the list is non-empty, and no status tick runs before the initial
\* list fetch has succeeded and set hasInitialLoaded.
C11_StatusPollAfterInitialLoad ==
    /\ StatusTimerEnabled => (hasInitialLoaded /\ services # <<>>)
    /\ nStatusTicks > 0 => (hasInitialLoaded /\ initialLoad = "done")

C13_FailuresAreNotified ==
    /\ unhandled = 0
    /\ notifications = failedCalls

\* a fetch of the list interval settles in this step, rejected or fulfilled
ListFetchFailsNow == listFetches' < listFetches /\ failedCalls' > failedCalls

ListFetchSucceedsNow == listFetches' < listFetches /\ failedCalls' = failedCalls

\* C14: a failed periodic list refresh changes none of services,
\* serviceAddresses, serviceStatus and hasInitialLoaded, records exactly one
\* notification and leaves the list interval enabled; a successful one
\* replaces the list by the fetched list.
C14_FailedRefreshKeepsState ==
    /\ [][ListFetchFailsNow =>
             (/\ services' = services
              /\ serviceAddresses' = serviceAddresses
              /\ serviceStatus' = serviceStatus
              /\ hasInitialLoaded' = hasInitialLoaded
              /\ notifications' = notifications + 1
              /\ ListTimerEnabled')]_vars
    /\ [][ListFetchSucceedsNow => services' = lastFetch'.data]_vars

C14_Witness ==
    /\ notifications = 1
    /\ nListTicks = 2
    /\ listFetches = 0
    /\ lastFetch.result = "ok"
    /\ Len(lastFetch.data) = 2
    /\ services = lastFetch.data
    /\ initialLoad = "done"

\* C18: hasInitialLoaded is true only after the initial fetch has succeeded
\* and never reverts; after a failed initial fetch it stays false and the
\* list interval never runs.
C18_InitialLoadedIsMonotone ==
    /\ [](hasInitialLoaded => initialLoad = "done")
    /\ [](initialLoad = "failed" =>
             (~hasInitialLoaded /\ ~ListTimerEnabled /\ nListTicks = 0 /\ listFetches = 0))
    /\ [][hasInitialLoaded => hasInitialLoaded']_vars
    /\ [][initialLoad = "failed" => initialLoad' = "failed"]_vars

C18_Witness ==
    /\ initialLoad = "failed"
    /\ ~hasInitialLoaded
    /\ services # <<>>
    /\ nStatusTicks > 0
    /\ nListTicks = 0

\* C15: a Multicall Client call is atomic: when it fulfils the record has an
\* entry for every requested address and only for those, the i-th result
\* stored under the i-th address; when it rejects no record is returned.
C15_MulticallIsAtomic ==
    /\ multicall.state = "fulfilled" =>
          /\ Len(multicall.responseData) = Len(multicall.addresses)
          /\ DOMAIN multicall.record = Range(multicall.addresses)
          /\ \A i \in 1..Len(multicall.addresses) :
                multicall.record[multicall.addresses[i]].n = multicall.responseData[i]
    /\ multicall.state # "fulfilled" => DOMAIN multicall.record = {}

C15_Witness ==
    /\ multicall.state = "fulfilled"
    /\ multicall.fn = "getErc20Balances"
    /\ multicall.addresses = <<A2, A1>>
    /\ multicall.responseData = <<0, 1>>
    /\ multicall.record[A1] = Num(1)
    /\ multicall.record[A2] = Num(0)

\* C16: a balance cycle that follows one with the same addresses and the same
\* per-address results publishes the same balance again.
C16_RefreshIsIdempotent ==
    [][(/\ CycleCompletes
        /\ last.set
        /\ last'.addrs = last.addrs
        /\ last'.results = last.results) => balance' = balance]_vars

C16_Witness ==
    /\ lastRepeats
    /\ lastId = 2
    /\ Len(last.results) = 3
    /\ ~SomeRejected(last.results)
    /\ balance = Num(3)

\* C17 as claimed: the balance timer is enabled exactly when the wallet list
\* is non-empty, and with an empty wallet list and service addresses present
\* no cycle is started and the published balance keeps its value.
C17_EmptyWalletsFreezeBalance ==
    /\ [](BalanceTimerEnabled <=> wallets # <<>>)
    /\ [][(wallets = <<>> /\ serviceAddresses # <<>>) =>
             (nStarted' = nStarted /\ balance' = balance)]_vars

\* C17 as amended: the balance timer is enabled exactly when the wallet list
\* is non-empty; with an empty wallet list and service addresses present no
\* cycle is started, and the published balance changes only when a cycle
\* started earlier, still in flight, completes.
C17_EmptyWalletsStartNoCycle ==
    /\ [](BalanceTimerEnabled <=> wallets # <<>>)
    /\ [][(wallets = <<>> /\ serviceAddresses # <<>>) =>
             (/\ nStarted' = nStarted
              /\ rpcCalls' = rpcCalls
              /\ balance' # balance => (cycles # <<>> /\ CycleCompletes))]_vars

C17_Witness ==
    /\ wallets = <<>>
    /\ serviceAddresses # <<>>
    /\ ~BalanceTimerEnabled
    /\ cycles = <<>>
    /\ nStarted = 1
    /\ last.set
    /\ balance = Num(1)

\* C19: the published balance is never overwritten by an older cycle: each
\* cycle that publishes was started after the one that published before it.
C19_NoStaleOverwrite ==
    [][CycleCompletes => lastId' > lastId]_vars

====
